---- MODULE Spec2Model ----
(***************************************************************************)
(* UnType push-to-talk pipeline: the hotkey listener (hotkey.py), the      *)
(* orchestrator UnTypeApp (main.py) with its worker threads, the window    *)
(* watcher, the hold bubble and the ghost menu.  Collaborators (recorder,  *)
(* STT, LLM, clipboard, overlay windows) are modelled by their visible     *)
(* state only.                                                             *)
(***************************************************************************)
EXTENDS Integers, Sequences, FiniteSets, TLC

\* ------------------------------------------------------------------ bounds
MaxSessions == 2      \* lock acquisitions (accepted presses + ghost actions)
MaxThreads == 3       \* worker threads alive at the same time
MaxHotkeyLen == 5     \* pieces of a hotkey string handed to parse_hotkey
MaxKeyEvents == 5     \* key events and resets the listener handles in one run
MaxEvents == 6
MaxMonitorEvents == 7        \* user inputs (keys, clicks, window switches) and injected faults in one run

\* ------------------------------------------------------------------ values
\* A window identity is <<hwnd, pid>>; the second window reuses handle 1 in another
\* process, the case the process-id comparison exists for.
NoWindow == <<0, 0>>
Windows == {<<1, 1>>, <<1, 2>>}

\* Texts are token sequences so that trimming and refinement are computed.
NoText == <<"None">>
Empty == <<>>
Sp == " "
SttOutputs == {<<"hi">>, <<Sp, "hi", Sp>>, <<Sp>>}
Selection == <<"sel">>
UserEdit == <<"edit">>
Clip0 == <<"clip0">>

\* str.strip(): drop leading and trailing whitespace tokens.
RECURSIVE LStrip(_)
LStrip(s) == IF s # <<>> /\ Head(s) = Sp THEN LStrip(Tail(s)) ELSE s
RECURSIVE RStrip(_)
RStrip(s) == IF s # <<>> /\ s[Len(s)] = Sp THEN RStrip(SubSeq(s, 1, Len(s) - 1)) ELSE s
Strip(s) == RStrip(LStrip(s))

\* LLMClient.insert / LLMClient.polish: the reply is a function of its arguments.
LlmInsert(text, persona) == <<"I", persona>> \o text
LlmPolish(original, instruction, persona) == <<"P", persona>> \o original \o <<"|">> \o instruction

\* ------------------------------------------------------- parse_hotkey
\* A hotkey string is a sequence of pieces: "+", a blank, or a run of other characters.
\* The runs are chosen so that no two of them side by side spell a key name.
HotkeyPieces == {"+", Sp, "win", "Ctrl", "escape", "a", "A", "xy"}
SingleChars == {"a", "A"}
\* str.lower() on a piece
lower(piece) == CASE piece = "Ctrl" -> "ctrl" [] piece = "A" -> "a" [] OTHER -> piece
\* str.split("+")
RECURSIVE split(_)
split(s) ==
    IF \A k \in 1..Len(s) : s[k] # "+"
    THEN <<s>>
    ELSE LET i == CHOOSE k \in 1..Len(s) : s[k] = "+" /\ \A j \in 1..(k - 1) : s[j] # "+"
         IN <<SubSeq(s, 1, i - 1)>> \o split(SubSeq(s, i + 1, Len(s)))
\* parts = [p.strip().lower() for p in hotkey_str.split("+")]
Parts(s) == [k \in 1..Len(split(s)) |->
                [j \in 1..Len(Strip(split(s)[k])) |-> lower(Strip(split(s)[k])[j])]]

\* the keys of _MODIFIER_MAP and of _SPECIAL_KEYS
MODIFIER_MAP == {"alt", "ctrl", "shift", "cmd", "win"}
SPECIAL_KEYS == {"space", "enter", "tab", "backspace", "delete", "escape", "esc", "up", "down",
                 "left", "right", "home", "end", "page_up", "page_down", "insert",
                 "f1", "f2", "f3", "f4", "f5", "f6", "f7", "f8", "f9", "f10", "f11", "f12"}
\* _SPECIAL_KEYS[name]: "escape" and "esc" name the same key
SpecialKey(name) == <<"Key", IF name = "escape" THEN "esc" ELSE name>>
\* keyboard.KeyCode.from_char
FromChar(c) == <<"KeyCode", c>>
\* a token is the one-piece word w
Is(token, words) == Len(token) = 1 /\ token[1] \in words

canonical_raw(mod) == mod
\* canonical = "cmd" if mod == "win" else mod
canonical(mod) == IF mod = <<"win">> THEN <<"cmd">> ELSE mod

Unparsed == [ok |-> FALSE, error |-> "not called", modifiers |-> {}, trigger |-> <<>>]
ValueError(what) == [ok |-> FALSE, error |-> what, modifiers |-> {}, trigger |-> <<>>]
\* parse_hotkey
parse_hotkey(hotkey_str) ==
    LET parts == Parts(hotkey_str)
        modifier_parts == SubSeq(parts, 1, Len(parts) - 1)
        trigger_part == parts[Len(parts)]
        modifiers == {canonical(modifier_parts[k])[1] : k \in 1..Len(modifier_parts)}
    IN  IF parts = <<>> \/ parts = << <<>> >>
        THEN ValueError("empty")
        ELSE IF \E k \in 1..Len(modifier_parts) : ~Is(canonical(modifier_parts[k]), MODIFIER_MAP)
        THEN ValueError("modifier")
        ELSE IF Is(trigger_part, SPECIAL_KEYS)
        THEN [ok |-> TRUE, error |-> "", modifiers |-> modifiers,
              trigger |-> SpecialKey(trigger_part[1])]
        ELSE IF Is(trigger_part, MODIFIER_MAP) \/ trigger_part = <<"win">>
        THEN ValueError("trigger is a modifier")
        ELSE IF Is(trigger_part, SingleChars)
        THEN [ok |-> TRUE, error |-> "", modifiers |-> modifiers,
              trigger |-> FromChar(trigger_part[1])]
        ELSE ValueError("trigger")

VARIABLES
    cfg,        \* configuration: hotkey mode, hotkey modifiers, active personas
    hk,         \* HotkeyListener fields
    app,        \* UnTypeApp session fields
    last,       \* UnTypeApp._last_* (LastInteraction)
    lock,       \* UnTypeApp._pipeline_lock is held
    recording,  \* AudioRecorder.is_recording
    ov,         \* overlay windows and the staging mailbox
    fg,         \* the foreground window
    clipboard,  \* the system clipboard
    th,         \* worker threads
    hist,       \* history: sessions, lock owner, injections
    events,     \* user input events so far
    keylog,     \* history: key events the listener handled and the callback each fired
    parse       \* a hotkey string and what parse_hotkey made of it

vars == <<cfg, hk, app, last, lock, recording, ov, fg, clipboard, th, hist, events, keylog,
          parse>>

Slots == 1..MaxThreads
Idle == [kind |-> "none", pc |-> "done", sid |-> 0, audio |-> FALSE,
         text |-> NoText, edited |-> NoText, persona |-> "none"]
Thread(kind, pc, sid) == [Idle EXCEPT !.kind = kind, !.pc = pc, !.sid = sid]
HasFree(t) == \E i \in Slots : t[i].kind = "none"
FreeSlot(t) == CHOOSE i \in Slots : t[i].kind = "none" /\ \A j \in Slots : j < i => t[j].kind # "none"
\* UnTypeApp._start_daemon_thread
start_daemon_thread(t, rec) == [t EXCEPT ![FreeSlot(t)] = rec]

NoLast == [raw_text |-> NoText, result |-> NoText, persona |-> "none", mode |-> "none",
           selected_text |-> NoText, original_clipboard |-> NoText, target_window |-> NoWindow]
\* What Setup captured for a session: the selection and the clipboard before the probe
NoSetup == [sel |-> NoText, clip |-> NoText, done |-> FALSE]
\* no refinement call has returned its text to a session yet
NoLlm == [sid |-> 0, fallback |-> FALSE, arg |-> NoText]
NoInj == [text |-> NoText, clip |-> NoText, win |-> NoWindow, sid |-> 0, by |-> "none",
          checked |-> FALSE, target |-> NoWindow]

\* No undo keystroke was sent yet.
NoUndo == [sid |-> 0, win |-> NoWindow]

\* the configurations of the application runs: a hotkey without modifiers
Configs == [mode : {"toggle", "hold"}, modifiers : {{}}, personas : BOOLEAN]

\* the state after UnTypeApp.__init__ under one of the given configurations
InitOf(configs, strings) ==
    /\ cfg \in configs
    /\ parse \in [str : strings, out : {Unparsed}]
    /\ hk = [held_modifiers |-> {}, trigger_held |-> FALSE, active |-> FALSE, toggled_on |-> FALSE]
    /\ app = [press_active |-> FALSE, recording_started |-> TRUE, cancel_requested |-> FALSE,
              hwnd_watch_active |-> FALSE, window_mismatch |-> FALSE, target_window |-> NoWindow,
              mode |-> "insert", selected_text |-> NoText, original_clipboard |-> NoText,
              preselected_persona |-> "none", held_result |-> NoText, held_clipboard |-> NoText,
              stop_timeout_timer |-> TRUE,
              digit_active |-> FALSE]
    /\ last = NoLast
    /\ lock = FALSE
    /\ recording = FALSE
    /\ ov = [capsule |-> FALSE, cancel_btn |-> FALSE, bubble |-> FALSE, ghost |-> FALSE, staging |-> FALSE,
             personas_bar |-> FALSE, staging_event |-> FALSE,
             staging_draft |-> Empty, staging_result_text |-> Empty,
             staging_result_action |-> "none"]
    /\ fg = <<1, 1>>
    /\ clipboard = Clip0
    /\ th = [i \in Slots |-> Idle]
    /\ hist = [nextSid |-> 1, inflight |-> {}, owner |-> 0, pressSid |-> 0,
               inj |-> NoInj, injected |-> {}, seen |-> {}, badRelease |-> FALSE,
               ranOut |-> FALSE, undo |-> NoUndo,
               setup |-> [s \in 1..MaxSessions |-> NoSetup], llm |-> NoLlm]
    /\ events = 0
    /\ keylog = <<>>

\* Spec and ListenerSpec start with the listener constructed: the hotkey string is
\* parsed already and cfg.modifiers carries the result.
Init == InitOf(Configs, {<<>>})

\* ------------------------------------------------------- hotkey listener
ModifierNames == {"alt", "ctrl", "shift", "cmd"}
Keys == {"trigger"}

reset_toggle_keepflag(h) == [h EXCEPT !.active = FALSE]
\* HotkeyListener.reset_toggle
reset_toggle(h) == [h EXCEPT !.toggled_on = FALSE, !.active = FALSE]

\* HotkeyListener._on_key_press, the key tracking at its top
TrackPress(h, key) ==
    [h EXCEPT !.held_modifiers = IF key \in ModifierNames THEN @ \cup {key} ELSE @,
              !.trigger_held = IF key = "trigger" THEN TRUE ELSE @]
combo_pressed(h) == h.trigger_held /\ cfg.modifiers \subseteq h.held_modifiers

\* HotkeyListener._on_key_press: which callback fires ("press", "release", "none")
on_key_press_fires(h, key) ==
    LET t == TrackPress(h, key) IN
    IF combo_pressed(t) /\ ~t.active
    THEN IF cfg.mode = "toggle" /\ t.toggled_on THEN "release" ELSE "press"
    ELSE "none"

\* HotkeyListener._on_key_press: the listener state it leaves
on_key_press_state(h, key) ==
    LET t == TrackPress(h, key) IN
    IF combo_pressed(t) /\ ~t.active
    THEN IF cfg.mode = "toggle"
         THEN [t EXCEPT !.active = TRUE, !.toggled_on = ~t.toggled_on]
         ELSE [t EXCEPT !.active = TRUE]
    ELSE t

on_key_release_fires_trigger_only(h, key) ==
    /\ cfg.mode # "toggle"
    /\ h.active
    /\ key = "trigger"
\* HotkeyListener._on_key_release: whether on_release fires
on_key_release_fires(h, key) ==
    /\ cfg.mode # "toggle"
    /\ h.active
    /\ (key = "trigger" \/ (key \in ModifierNames /\ key \in cfg.modifiers))

\* HotkeyListener._on_key_release: the listener state it leaves
on_key_release_state(h, key) ==
    IF cfg.mode = "toggle"
    THEN [h EXCEPT !.active = IF key = "trigger" THEN FALSE ELSE @,
                   !.trigger_held = IF key = "trigger" THEN FALSE ELSE @,
                   !.held_modifiers = @ \ {key}]
    ELSE [h EXCEPT !.active = IF on_key_release_fires(h, key) THEN FALSE ELSE @,
                   !.held_modifiers = @ \ {key},
                   !.trigger_held = IF key = "trigger" THEN FALSE ELSE @]

\* ------------------------------------------------------- lock bookkeeping
\* threading.Lock.release() by a worker of session sid: the lock has no owner, so
\* the call frees it whoever holds it (and raises if nobody does).
Released(h, sid) ==
    [h EXCEPT !.inflight = @ \ {sid},
              !.owner = 0,
              !.badRelease = @ \/ ~lock \/ h.owner # sid]
Acquired(h) ==
    [h EXCEPT !.nextSid = @ + 1, !.inflight = @ \cup {h.nextSid}, !.owner = h.nextSid]
CanAcquire == hist.nextSid <= MaxSessions

\* ------------------------------------------------------- hotkey callbacks
\* UnTypeApp._on_hotkey_press
on_hotkey_press ==
    IF lock
    THEN UNCHANGED <<app, lock, ov, clipboard, th, hist>>
    ELSE /\ lock' = TRUE
         /\ app' = [app EXCEPT !.cancel_requested = FALSE,
                               !.held_result = NoText,
                               !.held_clipboard = NoText,
                               !.press_active = TRUE,
                               !.recording_started = FALSE]
         /\ ov' = [ov EXCEPT !.ghost = FALSE,
                             !.bubble = IF app.held_result # NoText THEN FALSE ELSE @]
         /\ clipboard' = IF app.held_result # NoText THEN app.held_result ELSE clipboard
         /\ th' = start_daemon_thread(th, Thread("rec", "setup", hist.nextSid))
         /\ hist' = [Acquired(hist) EXCEPT !.pressSid = hist.nextSid]

\* UnTypeApp._on_hotkey_release
on_hotkey_release ==
    /\ app' = [app EXCEPT !.press_active = FALSE]
    /\ th' = IF app.press_active
             THEN start_daemon_thread(th, Thread("pipe", "wait", hist.pressSid))
             ELSE start_daemon_thread(th, Thread("cleanup", "wait", 0))
    /\ UNCHANGED <<lock, ov, clipboard, hist>>

\* A key-down event reaches the listener (auto-repeat included).
KeyDown(key) ==
    LET fires == on_key_press_fires(hk, key) IN
    /\ (fires = "press" /\ ~lock) => (CanAcquire /\ HasFree(th))
    /\ fires = "release" => HasFree(th)
    /\ hk' = on_key_press_state(hk, key)
    /\ CASE fires = "press" -> on_hotkey_press
         [] fires = "release" -> on_hotkey_release
         [] OTHER -> UNCHANGED <<app, lock, ov, clipboard, th, hist>>
    /\ UNCHANGED <<cfg, last, recording, fg>>

\* A key-up event reaches the listener.
KeyUp(key) ==
    /\ IF key = "trigger" THEN hk.trigger_held ELSE key \in hk.held_modifiers
    /\ on_key_release_fires(hk, key) => HasFree(th)
    /\ hk' = on_key_release_state(hk, key)
    /\ IF on_key_release_fires(hk, key)
       THEN on_hotkey_release
       ELSE UNCHANGED <<app, lock, ov, clipboard, th, hist>>
    /\ UNCHANGED <<cfg, last, recording, fg>>

\* ------------------------------------------------------- emergency stop
on_cancel_nocleanup ==
    /\ ov.capsule /\ ov.cancel_btn
    /\ app' = [app EXCEPT !.cancel_requested = TRUE,
                          !.digit_active = FALSE,
                          !.hwnd_watch_active = FALSE]
    /\ hk' = reset_toggle(hk)
    /\ ov' = [ov EXCEPT !.capsule = FALSE, !.cancel_btn = FALSE, !.personas_bar = FALSE,
                        !.bubble = FALSE,
                        !.staging_result_action = "cancel",
                        !.staging_result_text = Empty,
                        !.staging_event = TRUE]
    /\ UNCHANGED <<cfg, last, lock, recording, fg, clipboard, hist, th>>
\* UnTypeApp._on_cancel, with h the record of what has happened so far
on_cancel_from(h) ==
    /\ app.press_active => HasFree(th)
    /\ app' = [app EXCEPT !.cancel_requested = TRUE,
                          !.stop_timeout_timer = TRUE,
                          !.digit_active = FALSE,
                          !.hwnd_watch_active = FALSE]
    /\ hk' = reset_toggle(hk)
    /\ ov' = [ov EXCEPT !.capsule = FALSE, !.cancel_btn = FALSE, !.personas_bar = FALSE,
                        !.bubble = FALSE,
                        !.staging_result_action = "cancel",
                        !.staging_result_text = Empty,
                        !.staging_event = TRUE]
    /\ th' = IF app.press_active
             THEN start_daemon_thread(th, Thread("cleanup", "wait", hist.pressSid))
             ELSE th
    /\ hist' = h
    /\ UNCHANGED <<cfg, last, lock, recording, fg, clipboard>>

\* UnTypeApp._on_cancel, called by the capsule's cancel button
on_cancel ==
    /\ ov.capsule /\ ov.cancel_btn
    /\ on_cancel_from(hist)

\* UnTypeApp._timeout_monitor_loop: the tick that finds the recorder recording with its
\* duration at MAX_RECORDING_SECONDS; it calls _on_cancel and leaves the loop
timeout_monitor_loop ==
    /\ ~app.stop_timeout_timer
    /\ recording
    /\ on_cancel_from([hist EXCEPT !.ranOut = TRUE])

\* The finally blocks of the workers: flags cleared before the lock is released.
FinallyFlags(a) ==
    [a EXCEPT !.hwnd_watch_active = FALSE, !.digit_active = FALSE, !.cancel_requested = FALSE]

\* UnTypeApp._cleanup_after_cancel; fault = the 5 s wait for recording-started ran out
cleanup_after_cancel(i, fault) ==
    /\ th[i].kind = "cleanup"
    /\ fault <=> ~app.recording_started
    /\ recording' = FALSE
    /\ app' = FinallyFlags(app)
    /\ lock' = FALSE
    /\ hist' = Released(hist, th[i].sid)
    /\ th' = [th EXCEPT ![i] = Idle]
    /\ UNCHANGED <<cfg, hk, last, ov, fg, clipboard>>

\* ------------------------------------------------------- window watcher
verify_foreground_window_handle(identity, current) == current[1] = identity[1]
\* verify_foreground_window: handle and process id both match
verify_foreground_window(identity, current) ==
    current[1] = identity[1] /\ current[2] = identity[2]

\* UnTypeApp._start_hwnd_watcher
start_hwnd_watcher(a) == [a EXCEPT !.window_mismatch = FALSE, !.hwnd_watch_active = TRUE]

\* UnTypeApp._watch_hwnd: a poll that finds another window in the foreground
watch_hwnd ==
    /\ app.hwnd_watch_active
    /\ app.target_window # NoWindow
    /\ ~verify_foreground_window(app.target_window, fg)
    /\ app' = [app EXCEPT !.window_mismatch = TRUE, !.hwnd_watch_active = FALSE]
    /\ hist' = [hist EXCEPT !.seen = @ \cup hist.inflight]
    /\ UNCHANGED <<cfg, hk, last, lock, recording, ov, fg, clipboard, th>>

\* UnTypeApp._verify_window_safety
verify_window_safety(a, current) ==
    IF a.target_window = NoWindow
    THEN TRUE
    ELSE ~(a.window_mismatch \/ ~verify_foreground_window(a.target_window, current))

\* ------------------------------------------------------- recording start
\* UnTypeApp._start_recording up to the recorder start and the overlay
start_recording_setup(i, fault) ==
    /\ th[i].kind = "rec" /\ th[i].pc = "setup"
    /\ IF fault \/ recording
        THEN \* get_foreground_window or AudioRecorder.start raised
             /\ app' = [app EXCEPT !.target_window = fg, !.recording_started = TRUE]
             /\ ov' = [ov EXCEPT !.cancel_btn = FALSE]
             /\ th' = [th EXCEPT ![i] = Idle]
             /\ UNCHANGED <<recording, hist>>
        ELSE /\ app' = [app EXCEPT !.target_window = fg,
                                   !.stop_timeout_timer = FALSE,
                                   !.preselected_persona = IF cfg.personas THEN @ ELSE "none"]
             /\ recording' = TRUE
             /\ hist' = [hist EXCEPT !.ranOut = FALSE]
             /\ ov' = [ov EXCEPT !.capsule = TRUE, !.cancel_btn = TRUE]
             /\ th' = [th EXCEPT ![i].pc = IF cfg.personas THEN "bar" ELSE "probe"]
    /\ UNCHANGED <<cfg, hk, last, lock, fg, clipboard>>

\* UnTypeApp._start_recording with personas configured: the recording persona bar and
\* the digit interceptor, after the capsule is already on screen
start_recording_personas(i) ==
    /\ th[i].kind = "rec" /\ th[i].pc = "bar"
    /\ app' = [app EXCEPT !.preselected_persona = "none", !.digit_active = TRUE]
    /\ ov' = [ov EXCEPT !.personas_bar = TRUE]
    /\ th' = [th EXCEPT ![i].pc = "probe"]
    /\ UNCHANGED <<cfg, hk, last, lock, recording, fg, clipboard, hist>>

start_recording_probe_nofinally(i, fault) ==
    /\ th[i].kind = "rec" /\ th[i].pc = "probe"
    /\ \E sel \in (IF fault THEN {NoText} ELSE {NoText, Selection}) :
        IF fault
        THEN /\ app' = app
             /\ ov' = [ov EXCEPT !.cancel_btn = FALSE]
             /\ UNCHANGED <<clipboard, hist>>
        ELSE /\ app' = [start_hwnd_watcher(app) EXCEPT
                            !.selected_text = sel,
                            !.original_clipboard = clipboard,
                            !.mode = IF sel # NoText THEN "polish" ELSE "insert",
                            !.recording_started = TRUE]
             /\ clipboard' = IF sel # NoText THEN sel ELSE Empty
             /\ hist' = [hist EXCEPT !.setup[th[i].sid] =
                                        [sel |-> sel, clip |-> clipboard, done |-> TRUE]]
             /\ UNCHANGED ov
    /\ th' = [th EXCEPT ![i] = Idle]
    /\ UNCHANGED <<cfg, hk, last, lock, recording, fg>>
\* UnTypeApp._start_recording from grab_selected_text to the finally block
start_recording_probe(i, fault) ==
    /\ th[i].kind = "rec" /\ th[i].pc = "probe"
    /\ \E sel \in (IF fault THEN {NoText} ELSE {NoText, Selection}) :
        IF fault
        THEN /\ app' = [app EXCEPT !.recording_started = TRUE]
             /\ ov' = [ov EXCEPT !.cancel_btn = FALSE]
             /\ UNCHANGED <<clipboard, hist>>
        ELSE /\ app' = [start_hwnd_watcher(app) EXCEPT
                            !.selected_text = sel,
                            !.original_clipboard = clipboard,
                            !.mode = IF sel # NoText THEN "polish" ELSE "insert",
                            !.recording_started = TRUE]
             /\ clipboard' = IF sel # NoText THEN sel ELSE Empty
             /\ hist' = [hist EXCEPT !.setup[th[i].sid] =
                                        [sel |-> sel, clip |-> clipboard, done |-> TRUE]]
             /\ UNCHANGED ov
    /\ th' = [th EXCEPT ![i] = Idle]
    /\ UNCHANGED <<cfg, hk, last, lock, recording, fg>>

\* UnTypeApp._on_digit_during_recording (one active persona, "p1")
on_digit_during_recording ==
    /\ app.digit_active /\ cfg.personas
    /\ app' = [app EXCEPT !.preselected_persona = IF @ = "p1" THEN "none" ELSE "p1"]
    /\ UNCHANGED <<cfg, hk, last, lock, recording, ov, fg, clipboard, th, hist>>

\* The user brings another window to the foreground.
FocusChange(w) ==
    /\ w # fg
    /\ fg' = w
    /\ UNCHANGED <<cfg, hk, app, last, lock, recording, ov, clipboard, th, hist>>

\* ------------------------------------------------------- injection and state
\* clipboard.inject_text: paste into the foreground window, then restore the clipboard
inject_text(h, text, sid, by, checked) ==
    [h EXCEPT !.inj = [text |-> text, clip |-> app.original_clipboard, win |-> fg, sid |-> sid,
                       by |-> by, checked |-> checked, target |-> app.target_window],
              !.injected = @ \cup {sid}]
\* clipboard.restore_clipboard
restore_clipboard(content) == IF content = NoText THEN Empty ELSE content

save_interaction_state_raw(a, raw_text, result, persona) ==
    [raw_text |-> raw_text, result |-> raw_text, persona |-> persona, mode |-> a.mode,
     selected_text |-> a.selected_text, original_clipboard |-> a.original_clipboard,
     target_window |-> a.target_window]
\* UnTypeApp._save_interaction_state
save_interaction_state(a, raw_text, result, persona) ==
    [raw_text |-> raw_text, result |-> result, persona |-> persona, mode |-> a.mode,
     selected_text |-> a.selected_text, original_clipboard |-> a.original_clipboard,
     target_window |-> a.target_window]

run_llm_nofallback(a, text, persona, outcome) ==
    IF a.mode = "polish"
    THEN LlmPolish(IF a.selected_text = NoText THEN Empty ELSE a.selected_text, text, persona)
    ELSE LlmInsert(text, persona)
\* UnTypeApp._run_llm
run_llm(a, text, persona, outcome) ==
    IF outcome # "ok"
    THEN text
    ELSE IF a.mode = "polish"
         THEN LlmPolish(IF a.selected_text = NoText THEN Empty ELSE a.selected_text, text, persona)
         ELSE LlmInsert(text, persona)
LlmOutcomes == {"ok", "fail", "unconfigured", "interrupt"}
\* the return of _run_llm to session sid: whether it fell back to its argument
Refined(h, sid, outcome, arg) ==
    [h EXCEPT !.llm = [sid |-> sid, fallback |-> outcome \in {"fail", "unconfigured"},
                       arg |-> arg]]

\* return from a pipeline worker: the finally block of _process_pipeline
Finish(i, a, h) ==
    /\ app' = FinallyFlags(a)
    /\ lock' = FALSE
    /\ hist' = Released(h, th[i].sid)
    /\ th' = [th EXCEPT ![i] = Idle]

HideAll(o) == [o EXCEPT !.capsule = FALSE, !.cancel_btn = FALSE, !.personas_bar = FALSE]
HideCapsule(o) == [o EXCEPT !.capsule = FALSE, !.cancel_btn = FALSE]
\* CapsuleOverlay.show_staging
show_staging(o, text) ==
    [o EXCEPT !.staging = TRUE, !.staging_event = FALSE, !.staging_draft = text,
              !.capsule = FALSE, !.cancel_btn = FALSE, !.bubble = FALSE]

\* ------------------------------------------------------- pipeline worker
\* UnTypeApp._process_pipeline: wait for recording-started, checkpoints, recorder.stop()
process_pipeline_stop(i, fault) ==
    /\ th[i].kind = "pipe" /\ th[i].pc = "wait"
    /\ IF ~app.recording_started
       THEN \* the 10 s wait for recording-started ran out
            /\ fault
            /\ ov' = HideAll(ov)
            /\ Finish(i, app, hist)
            /\ UNCHANGED recording
       ELSE IF app.cancel_requested
       THEN /\ ~fault
            /\ recording' = FALSE
            /\ Finish(i, app, hist)
            /\ UNCHANGED ov
       ELSE IF ~recording
       THEN /\ ~fault
            /\ ov' = HideAll(ov)
            /\ Finish(i, app, hist)
            /\ UNCHANGED recording
       ELSE \E out \in {"audio", "empty"} :
            /\ app' = [app EXCEPT !.stop_timeout_timer = TRUE]
            /\ IF fault
               THEN /\ out = "audio"
                    /\ th' = [th EXCEPT ![i].pc = "error"]
                    /\ UNCHANGED <<recording, lock, hist, ov>>
               ELSE /\ recording' = FALSE
                    /\ th' = [th EXCEPT ![i].pc = "stopped", ![i].audio = (out = "audio")]
                    /\ UNCHANGED <<lock, hist, ov>>
    /\ UNCHANGED <<cfg, hk, last, fg, clipboard>>

process_pipeline_transcribe_noempty(i, fault) ==
    /\ th[i].kind = "pipe" /\ th[i].pc = "stopped"
    /\ IF app.cancel_requested
       THEN ~fault /\ Finish(i, app, hist) /\ UNCHANGED ov
       ELSE \E out \in (IF fault THEN {NoText} ELSE SttOutputs) :
            /\ th' = IF out = NoText
                     THEN [th EXCEPT ![i].pc = "error"]
                     ELSE [th EXCEPT ![i].pc = "transcribed", ![i].text = Strip(out)]
            /\ ov' = [ov EXCEPT !.cancel_btn = TRUE]
            /\ UNCHANGED <<app, lock, hist>>
    /\ UNCHANGED <<cfg, hk, last, recording, fg, clipboard>>
\* UnTypeApp._process_pipeline: checkpoints after the stop, then transcription
process_pipeline_transcribe(i, fault) ==
    /\ th[i].kind = "pipe" /\ th[i].pc = "stopped"
    /\ IF app.cancel_requested
       THEN ~fault /\ Finish(i, app, hist) /\ UNCHANGED ov
       ELSE IF ~th[i].audio
       THEN ~fault /\ Finish(i, app, hist) /\ ov' = HideAll(ov)
       ELSE \E out \in (IF fault THEN {NoText} ELSE SttOutputs) :
            /\ th' = IF out = NoText
                     THEN [th EXCEPT ![i].pc = "error"]
                     ELSE [th EXCEPT ![i].pc = "transcribed", ![i].text = Strip(out)]
            /\ ov' = [ov EXCEPT !.cancel_btn = TRUE]
            /\ UNCHANGED <<app, lock, hist>>
    /\ UNCHANGED <<cfg, hk, last, recording, fg, clipboard>>

process_pipeline_branch_staging(i) ==
    /\ th[i].kind = "pipe" /\ th[i].pc = "transcribed"
    /\ IF app.cancel_requested
       THEN Finish(i, app, hist) /\ UNCHANGED ov
       ELSE IF th[i].text = Empty
       THEN Finish(i, app, hist) /\ ov' = HideAll(ov)
       ELSE IF FALSE
       THEN /\ app' = start_hwnd_watcher([app EXCEPT !.digit_active = FALSE,
                                                     !.preselected_persona = "none"])
            /\ ov' = [ov EXCEPT !.personas_bar = FALSE, !.cancel_btn = TRUE,
                                !.capsule = IF app.window_mismatch THEN @ ELSE TRUE]
            /\ th' = [th EXCEPT ![i].pc = "llm", ![i].edited = th[i].text,
                                ![i].persona = app.preselected_persona]
            /\ UNCHANGED <<lock, hist>>
       ELSE /\ app' = [app EXCEPT !.digit_active = FALSE]
            /\ ov' = [ov EXCEPT !.personas_bar = FALSE]
            /\ th' = [th EXCEPT ![i].pc = "show"]
            /\ UNCHANGED <<lock, hist>>
    /\ UNCHANGED <<cfg, hk, last, recording, fg, clipboard>>
process_pipeline_branch_nocheck(i) ==
    /\ th[i].kind = "pipe" /\ th[i].pc = "transcribed"
    /\ IF th[i].text = Empty
       THEN Finish(i, app, hist) /\ ov' = HideAll(ov)
       ELSE IF cfg.personas
       THEN /\ app' = start_hwnd_watcher([app EXCEPT !.digit_active = FALSE,
                                                     !.preselected_persona = "none"])
            /\ ov' = [ov EXCEPT !.personas_bar = FALSE, !.cancel_btn = TRUE,
                                !.capsule = IF app.window_mismatch THEN @ ELSE TRUE]
            /\ th' = [th EXCEPT ![i].pc = "llm", ![i].edited = th[i].text,
                                ![i].persona = app.preselected_persona]
            /\ UNCHANGED <<lock, hist>>
       ELSE /\ app' = [app EXCEPT !.digit_active = FALSE]
            /\ ov' = [ov EXCEPT !.personas_bar = FALSE]
            /\ th' = [th EXCEPT ![i].pc = "show"]
            /\ UNCHANGED <<lock, hist>>
    /\ UNCHANGED <<cfg, hk, last, recording, fg, clipboard>>
\* UnTypeApp._process_pipeline checkpoint after transcription and the branch; the fast
\* lane runs up to the refinement call of _process_with_personas
process_pipeline_branch(i) ==
    /\ th[i].kind = "pipe" /\ th[i].pc = "transcribed"
    /\ IF app.cancel_requested
       THEN Finish(i, app, hist) /\ UNCHANGED ov
       ELSE IF th[i].text = Empty
       THEN Finish(i, app, hist) /\ ov' = HideAll(ov)
       ELSE IF cfg.personas
       THEN /\ app' = start_hwnd_watcher([app EXCEPT !.digit_active = FALSE,
                                                     !.preselected_persona = "none"])
            /\ ov' = [ov EXCEPT !.personas_bar = FALSE, !.cancel_btn = TRUE,
                                !.capsule = IF app.window_mismatch THEN @ ELSE TRUE]
            /\ th' = [th EXCEPT ![i].pc = "llm", ![i].edited = th[i].text,
                                ![i].persona = app.preselected_persona]
            /\ UNCHANGED <<lock, hist>>
       ELSE /\ app' = [app EXCEPT !.digit_active = FALSE]
            /\ ov' = [ov EXCEPT !.personas_bar = FALSE]
            /\ th' = [th EXCEPT ![i].pc = "show"]
            /\ UNCHANGED <<lock, hist>>
    /\ UNCHANGED <<cfg, hk, last, recording, fg, clipboard>>

\* UnTypeApp._process_with_staging up to wait_staging(): the editor is requested and
\* the staging mailbox is emptied, with no cancel checkpoint in between
process_with_staging_show(i) ==
    /\ th[i].kind = "pipe" /\ th[i].pc = "show"
    /\ app' = [app EXCEPT !.hwnd_watch_active = FALSE]
    /\ ov' = show_staging(ov, th[i].text)
    /\ th' = [th EXCEPT ![i].pc = "staging"]
    /\ UNCHANGED <<cfg, hk, last, lock, recording, fg, clipboard, hist>>

\* The user acts on the staging editor (CapsuleOverlay._resolve_staging).
StagingActions == {"refine", "raw", "cancel", "persona:p1"}
resolve_staging(action, edit) ==
    /\ ov.staging
    /\ action = "persona:p1" => cfg.personas
    /\ ov' = [ov EXCEPT !.staging = FALSE,
                        !.staging_result_action = action,
                        !.staging_result_text =
                            IF action = "cancel" THEN Empty
                            ELSE Strip(IF edit THEN UserEdit ELSE ov.staging_draft),
                        !.staging_event = TRUE]
    /\ UNCHANGED <<cfg, hk, app, last, lock, recording, fg, clipboard, th, hist>>

process_with_staging_draft(i, fault) ==
    /\ th[i].kind = "pipe" /\ th[i].pc = "staging"
    /\ ov.staging_event
    /\ LET action == ov.staging_result_action
           edited == ov.staging_result_text
       IN IF action = "cancel" \/ app.cancel_requested
          THEN ~fault /\ Finish(i, app, hist) /\ UNCHANGED <<ov, last, clipboard>>
          ELSE IF action = "raw"
          THEN IF fault
               THEN /\ th' = [th EXCEPT ![i].pc = "error"]
                    /\ UNCHANGED <<app, lock, hist, ov, last, clipboard>>
               ELSE /\ Finish(i, app, inject_text(hist, th[i].text, th[i].sid, "pipe", FALSE))
                    /\ clipboard' = restore_clipboard(app.original_clipboard)
                    /\ last' = save_interaction_state(app, th[i].text, edited, "none")
                    /\ ov' = [ov EXCEPT !.ghost = TRUE]
          ELSE /\ ~fault
               /\ app' = start_hwnd_watcher(app)
               /\ ov' = [ov EXCEPT !.capsule = TRUE, !.cancel_btn = TRUE]
               /\ th' = [th EXCEPT ![i].pc = "llm", ![i].edited = edited]
               /\ UNCHANGED <<lock, hist, last, clipboard>>
    /\ UNCHANGED <<cfg, hk, recording, fg>>
\* UnTypeApp._process_with_staging after wait_staging() returns
process_with_staging(i, fault) ==
    /\ th[i].kind = "pipe" /\ th[i].pc = "staging"
    /\ ov.staging_event
    /\ LET action == ov.staging_result_action
           edited == ov.staging_result_text
       IN IF action = "cancel" \/ app.cancel_requested
          THEN ~fault /\ Finish(i, app, hist) /\ UNCHANGED <<ov, last, clipboard>>
          ELSE IF action = "raw"
          THEN IF fault
               THEN /\ th' = [th EXCEPT ![i].pc = "error"]
                    /\ UNCHANGED <<app, lock, hist, ov, last, clipboard>>
               ELSE /\ Finish(i, app, inject_text(hist, edited, th[i].sid, "pipe", FALSE))
                    /\ clipboard' = restore_clipboard(app.original_clipboard)
                    /\ last' = save_interaction_state(app, th[i].text, edited, "none")
                    /\ ov' = [ov EXCEPT !.ghost = TRUE]
          ELSE /\ ~fault
               /\ app' = start_hwnd_watcher(app)
               /\ ov' = [ov EXCEPT !.capsule = TRUE, !.cancel_btn = TRUE]
               /\ th' = [th EXCEPT ![i].pc = "llm", ![i].edited = edited]
               /\ UNCHANGED <<lock, hist, last, clipboard>>
    /\ UNCHANGED <<cfg, hk, recording, fg>>

\* The tail of _process_with_personas / _process_with_staging: the refinement call
\* returns, the cancel checkpoint, the injection-safety check, then inject or hold.
process_refined(i, fault) ==
    /\ th[i].kind = "pipe" /\ th[i].pc = "llm"
    /\ \E outcome \in LlmOutcomes, inject_raises \in BOOLEAN :
       /\ outcome = "interrupt" => app.cancel_requested
       /\ fault <=> (outcome = "fail" \/ inject_raises)
       /\ ~(outcome = "fail" /\ inject_raises)
       /\ LET result == run_llm(app, th[i].edited, th[i].persona, outcome)
              a1 == [app EXCEPT !.hwnd_watch_active = FALSE]
              h1 == Refined(hist, th[i].sid, outcome, th[i].edited)
          IN IF outcome = "interrupt" \/ app.cancel_requested
             THEN /\ ~inject_raises
                  /\ Finish(i, a1, hist)
                  /\ ov' = HideCapsule(ov)
                  /\ UNCHANGED <<last, clipboard>>
             ELSE IF ~verify_window_safety(app, fg)
             THEN /\ ~inject_raises
                  /\ Finish(i, [a1 EXCEPT !.held_result = result,
                                          !.held_clipboard = app.original_clipboard], h1)
                  /\ last' = save_interaction_state(app, th[i].text, result, th[i].persona)
                  /\ ov' = [HideCapsule(ov) EXCEPT !.bubble = TRUE]
                  /\ UNCHANGED clipboard
             ELSE IF inject_raises
             THEN /\ app' = a1
                  /\ hist' = h1
                  /\ th' = [th EXCEPT ![i].pc = "error"]
                  /\ UNCHANGED <<lock, ov, last, clipboard>>
             ELSE /\ Finish(i, a1, inject_text(h1, result, th[i].sid, "pipe", TRUE))
                  /\ clipboard' = restore_clipboard(app.original_clipboard)
                  /\ last' = save_interaction_state(app, th[i].text, result, th[i].persona)
                  /\ ov' = [HideCapsule(ov) EXCEPT !.ghost = TRUE]
    /\ UNCHANGED <<cfg, hk, recording, fg>>

\* UnTypeApp._process_pipeline: the except block, then finally
process_pipeline_error(i) ==
    /\ th[i].kind = "pipe" /\ th[i].pc = "error"
    /\ Finish(i, app, hist)
    /\ ov' = HideAll(ov)
    /\ UNCHANGED <<cfg, hk, last, recording, fg, clipboard>>

\* ------------------------------------------------------- hold bubble
\* CapsuleOverlay._on_bubble_left_click / _right_click / _middle_click
HoldKinds == {"hold_inject", "hold_copy", "hold_ghost"}
on_bubble_click(kind) ==
    /\ ov.bubble
    /\ HasFree(th)
    /\ ov' = [ov EXCEPT !.bubble = FALSE]
    /\ th' = start_daemon_thread(th, Thread(kind, "run", 0))
    /\ UNCHANGED <<cfg, hk, app, last, lock, recording, fg, clipboard, hist>>

\* Variant that leaves the held result in place.
ClearHeld_kept(a) == a
ClearHeld(a) == [a EXCEPT !.held_result = NoText, !.held_clipboard = NoText]

\* UnTypeApp._on_hold_inject / _on_hold_copy: the reads of held_result and
\* held_clipboard into locals, which no lock ties to the writes that follow
on_hold_read(i) ==
    /\ th[i].kind \in {"hold_inject", "hold_copy"} /\ th[i].pc = "run"
    /\ th' = [th EXCEPT ![i].pc = "read", ![i].text = app.held_result,
                        ![i].edited = app.held_clipboard]
    /\ UNCHANGED <<cfg, hk, app, last, lock, recording, ov, fg, clipboard, hist>>

\* UnTypeApp._on_hold_inject after the reads: clear the held result, inject the local
on_hold_inject(i) ==
    /\ th[i].kind = "hold_inject" /\ th[i].pc = "read"
    /\ app' = ClearHeld(app)
    /\ th' = [th EXCEPT ![i] = Idle]
    /\ IF th[i].text = NoText
       THEN UNCHANGED <<hist, clipboard, last, ov>>
       ELSE /\ hist' = [hist EXCEPT !.inj = [text |-> th[i].text, clip |-> th[i].edited,
                                             win |-> fg, sid |-> 0, by |-> "hold",
                                             checked |-> FALSE, target |-> app.target_window]]
            /\ clipboard' = restore_clipboard(th[i].edited)
            /\ last' = IF last.raw_text # NoText
                       THEN [last EXCEPT !.result = th[i].text, !.target_window = fg]
                       ELSE last
            /\ ov' = [ov EXCEPT !.ghost = IF last.raw_text # NoText THEN TRUE ELSE @]
    /\ UNCHANGED <<cfg, hk, lock, recording, fg>>

\* UnTypeApp._on_hold_copy after the read: clear the held result, copy the local
on_hold_copy(i) ==
    /\ th[i].kind = "hold_copy" /\ th[i].pc = "read"
    /\ app' = ClearHeld(app)
    /\ th' = [th EXCEPT ![i] = Idle]
    /\ clipboard' = IF th[i].text = NoText THEN clipboard ELSE th[i].text
    /\ UNCHANGED <<cfg, hk, last, lock, recording, ov, fg, hist>>

\* UnTypeApp._on_hold_ghost
on_hold_ghost(i) ==
    /\ th[i].kind = "hold_ghost"
    /\ app' = ClearHeld(app)
    /\ th' = [th EXCEPT ![i] = Idle]
    /\ ov' = [ov EXCEPT !.ghost = IF last.raw_text # NoText THEN TRUE ELSE @]
    /\ UNCHANGED <<cfg, hk, last, lock, recording, fg, clipboard, hist>>

\* ------------------------------------------------------- ghost menu
GhostKinds == {"revert", "regen", "raw"}

\* The context a ghost action restores from LastInteraction before it proceeds
RestoreContext(a) ==
    [a EXCEPT !.mode = IF last.mode = "none" THEN "insert" ELSE last.mode,
              !.selected_text = last.selected_text,
              !.original_clipboard = last.original_clipboard,
              !.target_window = last.target_window,
              !.window_mismatch = FALSE]

\* The ghost actions' first step inside the lock: UnTypeApp._simulate_undo is called
\* when the target window of LastInteraction is in the foreground
undo_paste(h, target, current) ==
    IF target # NoWindow /\ verify_foreground_window(target, current)
    THEN [h EXCEPT !.undo = [sid |-> h.nextSid, win |-> current]]
    ELSE h

on_ghost_action_nobusy(kind) ==
    /\ ov.ghost
    /\ ov' = [ov EXCEPT !.ghost = FALSE]
    /\ hist' = undo_paste(hist, last.target_window, fg)
    /\ last' = IF kind = "revert"
               THEN [last EXCEPT !.raw_text = NoText, !.result = NoText]
               ELSE last
    /\ UNCHANGED <<cfg, hk, app, lock, th, recording, fg, clipboard>>
\* CapsuleOverlay._on_ghost_action, and _on_ghost_revert / _on_ghost_regenerate /
\* _on_ghost_use_raw up to their first blocking call
on_ghost_action(kind) ==
    /\ ov.ghost
    /\ IF last.raw_text = NoText \/ lock
       THEN /\ ov' = [ov EXCEPT !.ghost = FALSE]
            /\ UNCHANGED <<app, last, lock, th, hist>>
       ELSE /\ CanAcquire /\ HasFree(th)
            /\ lock' = TRUE
            /\ hist' = Acquired(undo_paste(hist, last.target_window, fg))
            /\ CASE kind = "revert" ->
                    /\ app' = RestoreContext(app)
                    /\ last' = [last EXCEPT !.raw_text = NoText, !.result = NoText]
                    /\ ov' = show_staging([ov EXCEPT !.ghost = FALSE], last.raw_text)
                    /\ th' = start_daemon_thread(th,
                                [Thread("revert", "staging", hist.nextSid) EXCEPT
                                    !.text = last.raw_text])
                 [] kind = "regen" ->
                    /\ app' = start_hwnd_watcher(RestoreContext(app))
                    /\ ov' = [ov EXCEPT !.ghost = FALSE, !.capsule = TRUE, !.cancel_btn = TRUE]
                    /\ th' = start_daemon_thread(th,
                                [Thread("regen", "llm", hist.nextSid) EXCEPT
                                    !.text = last.raw_text, !.edited = last.raw_text,
                                    !.persona = last.persona])
                    /\ UNCHANGED last
                 [] OTHER ->
                    /\ app' = [app EXCEPT !.original_clipboard = last.original_clipboard,
                                          !.target_window = last.target_window]
                    /\ ov' = [ov EXCEPT !.ghost = FALSE]
                    /\ th' = start_daemon_thread(th,
                                [Thread("raw", "inject", hist.nextSid) EXCEPT
                                    !.text = last.raw_text])
                    /\ UNCHANGED last
    /\ UNCHANGED <<cfg, hk, recording, fg, clipboard>>

\* the finally block of _on_ghost_revert / _on_ghost_regenerate
GhostFinish(i, a, h) ==
    /\ app' = [a EXCEPT !.hwnd_watch_active = FALSE]
    /\ lock' = FALSE
    /\ hist' = Released(h, th[i].sid)
    /\ th' = [th EXCEPT ![i] = Idle]

\* UnTypeApp._on_ghost_use_raw: inject the raw text, save, release
on_ghost_use_raw(i, fault) ==
    /\ th[i].kind = "raw"
    /\ IF fault
       THEN /\ hist' = Released(hist, th[i].sid)
            /\ UNCHANGED <<clipboard, last, ov>>
       ELSE /\ hist' = Released(inject_text(hist, th[i].text, th[i].sid, "raw", FALSE), th[i].sid)
            /\ clipboard' = restore_clipboard(app.original_clipboard)
            /\ last' = save_interaction_state(app, th[i].text, th[i].text, "none")
            /\ ov' = [ov EXCEPT !.ghost = TRUE]
    /\ lock' = FALSE
    /\ th' = [th EXCEPT ![i] = Idle]
    /\ UNCHANGED <<cfg, hk, app, recording, fg>>

\* UnTypeApp._on_ghost_revert after wait_staging() returns
on_ghost_revert_staged(i) ==
    /\ th[i].kind = "revert" /\ th[i].pc = "staging"
    /\ ov.staging_event
    /\ LET action == ov.staging_result_action
           edited == ov.staging_result_text
       IN IF action = "cancel"
          THEN GhostFinish(i, app, hist) /\ UNCHANGED <<ov, last, clipboard>>
          ELSE IF action = "raw"
          THEN /\ GhostFinish(i, app, inject_text(hist, edited, th[i].sid, "revert", FALSE))
               /\ clipboard' = restore_clipboard(app.original_clipboard)
               /\ last' = save_interaction_state(app, th[i].text, edited, "none")
               /\ ov' = [ov EXCEPT !.ghost = TRUE]
          ELSE /\ app' = start_hwnd_watcher(app)
               /\ ov' = [ov EXCEPT !.capsule = TRUE, !.cancel_btn = TRUE]
               /\ th' = [th EXCEPT ![i].pc = "llm", ![i].edited = edited,
                                   ![i].persona = IF action = "persona:p1" THEN "p1" ELSE "none"]
               /\ UNCHANGED <<lock, hist, last, clipboard>>
    /\ UNCHANGED <<cfg, hk, recording, fg>>

\* The tail of _on_ghost_revert / _on_ghost_regenerate: the refinement call returns,
\* the injection-safety check, then inject or hold.
on_ghost_refined(i, fault) ==
    /\ th[i].kind \in {"revert", "regen"} /\ th[i].pc = "llm"
    /\ \E outcome \in LlmOutcomes :
       /\ outcome = "interrupt" => app.cancel_requested
       /\ fault <=> outcome = "fail"
       /\ LET result == run_llm(app, th[i].edited, th[i].persona, outcome)
          IN IF outcome = "interrupt"
             THEN /\ GhostFinish(i, app, hist)
                  /\ ov' = HideCapsule(ov)
                  /\ UNCHANGED <<last, clipboard>>
             ELSE IF ~verify_window_safety(app, fg)
             THEN /\ GhostFinish(i, [app EXCEPT !.held_result = result,
                                               !.held_clipboard = app.original_clipboard], hist)
                  /\ last' = save_interaction_state(app, th[i].text, result, th[i].persona)
                  /\ ov' = [HideCapsule(ov) EXCEPT !.bubble = TRUE]
                  /\ UNCHANGED clipboard
             ELSE /\ GhostFinish(i, app, inject_text(hist, result, th[i].sid, th[i].kind, TRUE))
                  /\ clipboard' = restore_clipboard(app.original_clipboard)
                  /\ last' = save_interaction_state(app, th[i].text, result, th[i].persona)
                  /\ ov' = [HideCapsule(ov) EXCEPT !.ghost = TRUE]
    /\ UNCHANGED <<cfg, hk, recording, fg>>

\* ------------------------------------------------------- specification
\* What the user does: keys, clicks, window switches.
UserInput ==
    \/ \E key \in Keys : KeyDown(key)
    \/ \E key \in Keys : KeyUp(key)
    \/ on_cancel
    \/ on_digit_during_recording
    \/ \E w \in Windows : FocusChange(w)
    \/ \E action \in StagingActions, edit \in BOOLEAN : resolve_staging(action, edit)
    \/ \E kind \in HoldKinds : on_bubble_click(kind)
    \/ \E kind \in GhostKinds : on_ghost_action(kind)

\* What the worker threads do; fault = an exception is raised inside the step.
Worker(i, fault) ==
    \/ cleanup_after_cancel(i, fault)
    \/ start_recording_setup(i, fault)
    \/ ~fault /\ start_recording_personas(i)
    \/ start_recording_probe(i, fault)
    \/ process_pipeline_stop(i, fault)
    \/ process_pipeline_transcribe(i, fault)
    \/ ~fault /\ process_pipeline_branch(i)
    \/ ~fault /\ process_with_staging_show(i)
    \/ process_with_staging(i, fault)
    \/ process_refined(i, fault)
    \/ ~fault /\ process_pipeline_error(i)
    \/ ~fault /\ on_hold_read(i)
    \/ ~fault /\ on_hold_inject(i)
    \/ ~fault /\ on_hold_copy(i)
    \/ ~fault /\ on_hold_ghost(i)
    \/ on_ghost_use_raw(i, fault)
    \/ ~fault /\ on_ghost_revert_staged(i)
    \/ on_ghost_refined(i, fault)

Next ==
    \/ events < MaxEvents /\ UserInput /\ events' = events + 1 /\ UNCHANGED <<keylog, parse>>
    \/ events < MaxEvents /\ (\E i \in Slots : Worker(i, TRUE)) /\ events' = events + 1
                          /\ UNCHANGED <<keylog, parse>>
    \/ watch_hwnd /\ UNCHANGED <<events, keylog, parse>>
    \/ (\E i \in Slots : Worker(i, FALSE)) /\ UNCHANGED <<events, keylog, parse>>

Spec == Init /\ [][Next]_vars

\* ------------------------------------------------------- recordings that run out
\* The application with recordings that may reach the maximum duration.
MonitorNext ==
    \/ events < MaxMonitorEvents /\ UserInput /\ events' = events + 1
                                 /\ UNCHANGED <<keylog, parse>>
    \/ events < MaxMonitorEvents /\ timeout_monitor_loop /\ events' = events + 1
                                 /\ UNCHANGED <<keylog, parse>>
    \/ events < MaxMonitorEvents /\ (\E i \in Slots : Worker(i, TRUE)) /\ events' = events + 1
                                 /\ UNCHANGED <<keylog, parse>>
    \/ watch_hwnd /\ UNCHANGED <<events, keylog, parse>>
    \/ (\E i \in Slots : Worker(i, FALSE)) /\ UNCHANGED <<events, keylog, parse>>

MonitorSpec == Init /\ [][MonitorNext]_vars

\* ------------------------------------------------------- the listener on its own
\* The HotkeyListener driven by arbitrary key events and reset_toggle() calls, its
\* callbacks logged instead of run: hotkey "trigger" or "ctrl+trigger", with shift as
\* a modifier key the hotkey does not require.
ListenerKeys == {"trigger", "ctrl", "shift"}
ListenerConfigs == [mode : {"toggle", "hold"}, modifiers : {{}, {"ctrl"}}, personas : {FALSE}]

KeyEvent(ev, key, cb, h) == [ev |-> ev, key |-> key, cb |-> cb, combo |-> combo_pressed(h)]
\* the listener already tracks the key as down: the key-down is an auto-repeat
IsHeld(h, key) == IF key = "trigger" THEN h.trigger_held ELSE key \in h.held_modifiers

ListenerInit == InitOf(ListenerConfigs, {<<>>})

\* HotkeyListener._on_key_press
ListenerKeyDown(key) ==
    /\ hk' = on_key_press_state(hk, key)
    /\ keylog' = Append(keylog, KeyEvent(IF IsHeld(hk, key) THEN "repeat" ELSE "down", key,
                                         on_key_press_fires(hk, key), hk'))

\* HotkeyListener._on_key_release
ListenerKeyUp(key) ==
    /\ hk' = on_key_release_state(hk, key)
    /\ keylog' = Append(keylog, KeyEvent("up", key,
                                         IF on_key_release_fires(hk, key) THEN "release"
                                         ELSE "none", hk'))

\* HotkeyListener.reset_toggle
ListenerReset ==
    /\ hk' = reset_toggle(hk)
    /\ keylog' = Append(keylog, KeyEvent("reset", "none", "none", hk'))

ListenerNext ==
    /\ Len(keylog) < MaxKeyEvents
    /\ \/ \E key \in ListenerKeys : ListenerKeyDown(key)
       \/ \E key \in ListenerKeys : ListenerKeyUp(key)
       \/ ListenerReset
    /\ UNCHANGED <<cfg, app, last, lock, recording, ov, fg, clipboard, th, hist, events, parse>>

ListenerSpec == ListenerInit /\ [][ListenerNext]_vars

\* ------------------------------------------------------- parse_hotkey on its own
\* every string of at most MaxHotkeyLen pieces
HotkeyStrings == UNION {[1..n -> HotkeyPieces] : n \in 0..MaxHotkeyLen}
ParseInit == InitOf({[mode |-> "toggle", modifiers |-> {}, personas |-> FALSE]}, HotkeyStrings)

\* HotkeyListener.__init__: self._modifiers, self._trigger = parse_hotkey(hotkey_str)
ParseNext ==
    /\ parse.out = Unparsed
    /\ parse' = [parse EXCEPT !.out = parse_hotkey(parse.str)]
    /\ cfg' = IF parse'.out.ok THEN [cfg EXCEPT !.modifiers = parse'.out.modifiers] ELSE cfg
    /\ UNCHANGED <<hk, app, last, lock, recording, ov, fg, clipboard, th, hist, events, keylog>>

ParseSpec == ParseInit /\ [][ParseNext]_vars

\* ================================================================= properties
\* A session is in flight from the acquisition of pipeline_lock (accepted press or
\* ghost action) until one of its own workers releases it; hist.inflight holds
\* the sessions in flight.

\* C1: at most one session (a main pipeline run from its accepted press to its final
\* lock release, or a ghost action) is in flight at any time.
C1_SingleFlight == Cardinality(hist.inflight) <= 1

\* A cleanup thread started by on_hotkey_release for a release that had no accepted
\* press (its sid is 0) finishes in this step.
StrayCleanupStep ==
    \E i \in Slots : th[i].kind = "cleanup" /\ th[i].sid = 0 /\ th'[i].kind = "none"

\* C2: a press that arrives while pipeline_lock is held is dropped, and neither it nor
\* the release the listener fires after it changes the active session: the lock stays
\* held, and cancel_requested, hwnd_watch_active and the recorder are unchanged.
C2_DroppedPressHarmless ==
    [][ /\ (\E key \in Keys : KeyDown(key) /\ on_key_press_fires(hk, key) = "press" /\ lock)
            => UNCHANGED <<app, lock, recording, th, hist>>
        /\ (StrayCleanupStep /\ lock /\ hist.inflight # {})
            => /\ lock'
               /\ app'.cancel_requested = app.cancel_requested
               /\ app'.hwnd_watch_active = app.hwnd_watch_active
               /\ recording' = recording ]_vars

\* wait_staging() has no timeout: worker i stays in it until the mailbox is filled.
BlockedInStaging(i) == th[i].kind = "pipe" /\ th[i].pc = "staging" /\ ~ov.staging_event

\* C3: after a fault or a cancellation the session's own workers release pipeline_lock
\* on every exit path under fair scheduling, so no worker of an in-flight session is
\* left in a wait that only further user input can end while cancellation is requested.
C3_AlwaysRelease ==
    \A i \in Slots :
        (th[i].sid \in hist.inflight /\ app.cancel_requested) => ~BlockedInStaging(i)

\* The hotkey goes down physically (not an auto-repeat) in this step.
FreshPress == ~hk.trigger_held /\ hk'.trigger_held

\* C4: once a session has ended and pipeline_lock is free, the next full-combo press
\* fires on_press, acquires the lock and starts a new recording, in toggle mode as in
\* hold mode, whatever presses were ignored or cancellations happened before.
C4_NextPressStarts ==
    [][ (FreshPress /\ ~lock /\ hist.inflight = {} /\ hist.nextSid > 1)
        => /\ lock'
           /\ hist'.inflight = {hist.nextSid}
           /\ \E i \in Slots : th'[i] = Thread("rec", "setup", hist.nextSid) ]_vars

\* C5: a main-pipeline session in which the watcher observed a foreground mismatch before
\* the injection-safety check performs no injection; when its refinement completes
\* uncancelled the result is stored in held_result and the hold bubble is requested.
C5_MismatchNeverInjects ==
    [][ \A i \in Slots :
          (th[i].kind = "pipe" /\ th[i].sid \in hist.seen /\ th'[i].kind = "none")
          => /\ th[i].sid \notin hist'.injected
             /\ (th[i].pc = "llm" /\ ~app.cancel_requested)
                    => (app'.held_result # NoText /\ ov'.bubble) ]_vars

\* C6: within one session window_mismatch is monotonic: once the watcher has set it in a
\* session it stays set until that session releases the lock, whether the original
\* window regains the foreground or the watcher is restarted for the refinement call.
C6_MismatchSticky ==
    [][ (app.window_mismatch /\ \E s \in hist.inflight \cap hist.seen : s \in hist'.inflight)
        => app'.window_mismatch ]_vars

\* The last injection went through _verify_window_safety and the check said safe: the
\* foreground window was the target window by handle and process id.
InjectionWasSafe ==
    /\ hist.inj.checked
    /\ hist.inj.target # NoWindow => verify_foreground_window(hist.inj.target, hist.inj.win)

\* C7: every injection by the main pipeline (fast lane, after refinement from staging,
\* staging action raw) directly follows an injection-safety check that returned safe.
C7_PipelineInjectionChecked == hist.inj.by = "pipe" => InjectionWasSafe

\* C8: every ghost action that writes text (revert raw or refine, regenerate, use raw)
\* performs the injection-safety check before injecting; on failure it does not inject.
C8_GhostInjectionChecked == hist.inj.by \in GhostKinds => InjectionWasSafe

\* C9: hold-inject with a held result injects exactly the held text, with the held
\* clipboard value, into the window that is in the foreground at that moment, without
\* comparing it to target_window, and leaves held_result empty; with no held result it
\* injects nothing. The held result is the one the callback finds when it starts.
C9_HoldInject ==
    [][ \A i \in Slots :
          /\ (th[i].kind = "hold_inject" /\ th[i].pc = "run" /\ th'[i] # th[i])
             => /\ th'[i].text = app.held_result /\ th'[i].edited = app.held_clipboard
                /\ hist'.inj = hist.inj /\ clipboard' = clipboard
          /\ (th[i].kind = "hold_inject" /\ th'[i].kind = "none")
             => IF th[i].text # NoText
                THEN /\ hist'.inj.by = "hold"
                     /\ hist'.inj.text = th[i].text
                     /\ hist'.inj.clip = th[i].edited
                     /\ hist'.inj.win = fg
                     /\ clipboard' = restore_clipboard(th[i].edited)
                     /\ app'.held_result = NoText /\ app'.held_clipboard = NoText
                ELSE /\ hist'.inj = hist.inj
                     /\ clipboard' = clipboard
                     /\ app'.held_result = NoText ]_vars

\* A held result has been injected into a window other than the session's target window.
C9_Witness ==
    /\ hist.inj.by = "hold"
    /\ hist.inj.target # NoWindow
    /\ hist.inj.win # hist.inj.target
    /\ app.held_result = NoText

\* _on_hotkey_press accepts a press in this step: the lock is taken and a rec-start
\* thread is started.
AcceptedPress ==
    /\ ~lock /\ lock'
    /\ \E i \in Slots : th[i].kind = "none" /\ th'[i].kind = "rec"

\* C10: a press accepted while a held result exists copies the held text to the clipboard
\* and clears held_result before Setup starts; and no step that stores a held result
\* replaces one that is still held (neither delivered nor flushed).
C10_HeldNeverLost ==
    [][ /\ (AcceptedPress /\ app.held_result # NoText)
            => (clipboard' = app.held_result /\ app'.held_result = NoText
                /\ app'.held_clipboard = NoText)
        /\ (app.held_result # NoText /\ app'.held_result # NoText)
            => app'.held_result = app.held_result ]_vars

\* The pipeline worker i ends in this step with an injection of its session.
PipeInjects(i) ==
    /\ th[i].kind = "pipe" /\ th'[i].kind = "none"
    /\ th[i].sid \notin hist.injected /\ th[i].sid \in hist'.injected

\* What the refinement call returns for the text and the selection of a session: the
\* reply of the client, or the input when the call failed or no client is configured.
RefinementOutputs(text, sel, persona) ==
    { text,
      IF sel # NoText THEN LlmPolish(sel, text, persona) ELSE LlmInsert(text, persona) }

\* C11: in a session without cancellation, window change or personas that the user
\* confirms with refine, the injected text is the refinement output, the injection gets
\* the original clipboard captured in Setup (restored afterwards), and afterwards
\* last.raw_text is the trimmed transcript and last.result the injected text.
C11_RefineInjects ==
    [][ \A i \in Slots :
          (/\ PipeInjects(i) /\ th[i].pc = "llm" /\ ~cfg.personas
           /\ th[i].sid \notin hist.seen /\ ~app.cancel_requested
           /\ hist.setup[th[i].sid].done)
          => LET su == hist.setup[th[i].sid] IN
             /\ hist'.inj.text \in RefinementOutputs(th[i].edited, su.sel, "none")
             /\ hist'.inj.clip = su.clip
             /\ clipboard' = restore_clipboard(su.clip)
             /\ last'.raw_text = th[i].text /\ th[i].text = Strip(th[i].text)
             /\ last'.result = hist'.inj.text ]_vars

\* The rec-start worker i completes Setup in this step (the selection probe returned).
SetupCompletes(i) ==
    /\ th[i].kind = "rec" /\ th[i].pc = "probe" /\ th'[i].kind = "none"
    /\ hist'.setup[th[i].sid].done /\ ~hist.setup[th[i].sid].done

\* The pipeline worker i returns from an uncancelled refinement call in this step and
\* ends by injecting or holding the result, which it saves in last.result.
PipeRefined(i) ==
    /\ th[i].kind = "pipe" /\ th[i].pc = "llm" /\ th'[i].kind = "none"
    /\ ~app.cancel_requested

\* C12: at the end of Setup mode is polish exactly when grab_selected_text returned
\* text, insert when it returned None; in polish mode the refinement call of that session
\* gets that selection verbatim as original text and the transcript as instruction.
C12_ModeFollowsSelection ==
    [][ \A i \in Slots :
          /\ SetupCompletes(i)
                => /\ app'.mode = "polish" <=> hist'.setup[th[i].sid].sel # NoText
                   /\ app'.mode = "insert" <=> hist'.setup[th[i].sid].sel = NoText
                   /\ app'.selected_text = hist'.setup[th[i].sid].sel
          /\ (PipeRefined(i) /\ hist.setup[th[i].sid].done
                /\ hist.setup[th[i].sid].sel # NoText)
                => last'.result \in
                      { th[i].edited,
                        LlmPolish(hist.setup[th[i].sid].sel, th[i].edited, th[i].persona) }
      ]_vars

\* The refinement call of pipeline worker i returns its argument in this step (it raised,
\* or no client is configured) and the session was not cancelled.
RefinementFellBack(i) ==
    /\ th[i].kind = "pipe" /\ th[i].pc = "llm" /\ th'[i] # th[i]
    /\ hist'.llm.sid = th[i].sid /\ hist'.llm.fallback
    /\ ~app.cancel_requested

\* C13: when the refinement call raises or no client is configured, the text the
\* session then injects (or holds) is the text passed to refinement, unchanged, and the
\* session ends normally, not in the error path: the error path is entered from here
\* only by an injection call that itself raises, which needs the window check to pass.
C13_RefinementFallback ==
    [][ \A i \in Slots :
          (RefinementFellBack(i) /\ ~(th'[i].pc = "error" /\ verify_window_safety(app, fg)))
          => /\ th'[i].kind = "none"
             /\ last'.result = th[i].edited
             /\ \/ /\ hist'.inj.sid = th[i].sid /\ hist'.inj.by = "pipe"
                   /\ hist'.inj.text = th[i].edited /\ hist'.inj.text = hist'.llm.arg
                \/ /\ ~verify_window_safety(app, fg) /\ hist'.injected = hist.injected
                   /\ app'.held_result = th[i].edited /\ ov'.bubble ]_vars
\* A session has injected, or holds, the text it passed to a refinement that fell back.
C13_Witness ==
    /\ hist.llm.fallback /\ hist.llm.sid \notin hist.inflight
    /\ \/ hist.inj.sid = hist.llm.sid /\ hist.inj.by = "pipe" /\ hist.inj.text = hist.llm.arg
       \/ app.held_result = hist.llm.arg /\ ov.bubble

\* The cancel handler runs in this step while a press has been accepted and its release
\* event has not been delivered (only _on_hotkey_release clears press_active).
CancelDuringPress ==
    /\ on_cancel
    /\ app.press_active /\ hist.pressSid \in hist.inflight

\* The cleanup worker that a cancel started for a session returns in this step.
\* No release event has been delivered since the press (press_active is still set).
CleanupReturns(i) ==
    /\ th[i].kind = "cleanup" /\ th[i].sid # 0 /\ th'[i].kind = "none"
    /\ app.press_active /\ hist.pressSid = th[i].sid

\* C14: a cancellation requested after a press was accepted and before its release
\* event is delivered starts a cleanup worker at once, and that worker releases the
\* session's hold of the pipeline lock with no release event needed.
C14_CancelWhileHeld ==
    [][ /\ CancelDuringPress
             => \E i \in Slots : /\ th[i].kind = "none"
                                 /\ th'[i] = Thread("cleanup", "wait", hist.pressSid)
        /\ \A i \in Slots :
             CleanupReturns(i) => ~lock' /\ th[i].sid \notin hist'.inflight
      ]_vars
\* The lock is free again after a cancel during a press whose release never came.
C14_Witness ==
    /\ ~lock /\ app.press_active /\ hist.pressSid # 0 /\ hist.inflight = {}
    /\ ~hist.badRelease
    /\ \A i \in Slots : th[i].kind = "none"

\* Worker i observes the cancellation flag in this step and returns, releasing the lock.
EndsCancelled(i) ==
    /\ th[i].kind \in {"pipe", "cleanup"} /\ th[i].sid # 0
    /\ th[i].pc \notin {"error"}
    /\ app.cancel_requested
    /\ th'[i].kind = "none" /\ ~lock'

\* C15: when a session ends because cancellation was observed, at the moment its lock
\* is released the microphone is not recording and capsule, persona bar and hold bubble
\* are hidden (nothing the session shows comes after the hide).
C15_CancelLeavesNothing ==
    [][ \A i \in Slots :
          EndsCancelled(i)
          => /\ ~recording'
             /\ ~ov'.capsule /\ ~ov'.personas_bar /\ ~ov'.bubble ]_vars

\* Pipeline worker i is in, or about to enter, wait_staging() with cancellation requested.
CancelledInStaging(i, t, a) ==
    /\ t[i].kind = "pipe" /\ t[i].pc = "staging"
    /\ a.cancel_requested

\* C16: a cancellation requested after transcription completed and before the user acts
\* on the staging editor makes wait_staging() return "cancel" with no user input: the
\* mailbox is full whenever a worker waits on it under cancellation, and the worker
\* then ends the session with nothing injected and the lock released.
C16_CancelUnblocksStaging ==
    [][ \A i \in Slots :
          /\ CancelledInStaging(i, th', app') => ov'.staging_event
          /\ (CancelledInStaging(i, th, app) /\ th'[i] # th[i])
                => /\ th'[i].kind = "none" /\ ~lock'
                   /\ hist'.injected = hist.injected ]_vars

\* the callbacks fired so far, in order
Fired(log) == SelectSeq(log, LAMBDA e : e.cb # "none")
NoReset(log) == \A k \in 1..Len(log) : log[k].ev # "reset"
\* the event handled in this step
ThisEvent == keylog'[Len(keylog')]
Handled == Len(keylog') = Len(keylog) + 1

C18_ToggleAlternates ==
    [][ (Handled /\ cfg.mode = "toggle" /\ NoReset(keylog'))
        => /\ \A k \in 1..Len(Fired(keylog')) :
                 Fired(keylog')[k].cb = IF k % 2 = 1 THEN "press" ELSE "release"
           /\ (ThisEvent.ev = "down" /\ ~combo_pressed(hk) /\ ThisEvent.combo)
                 => ThisEvent.cb # "none"
           /\ (ThisEvent.ev = "repeat" /\ ThisEvent.key = "trigger") => ThisEvent.cb = "none"
           /\ ThisEvent.ev = "up" => ThisEvent.cb = "none" ]_vars

\* C19: in hold mode on_press fires exactly when a key-down finds the full combo
\* pressed in Idle (never while ComboHeld, auto-repeats included), on_release fires
\* exactly when the trigger or a required modifier goes up in ComboHeld, and key-ups in
\* Idle fire nothing; each callback fires once per press, so with no reset the
\* callbacks alternate and ComboHeld is the combo being physically pressed.
C19_HoldPressRelease ==
    [][ (Handled /\ cfg.mode = "hold")
        => /\ ThisEvent.ev \in {"down", "repeat"}
                 => /\ ThisEvent.cb = "press" <=> (~hk.active /\ ThisEvent.combo)
                    /\ ThisEvent.cb # "release"
                    /\ hk'.active = (hk.active \/ ThisEvent.cb = "press")
           /\ ThisEvent.ev = "up"
                 => /\ ThisEvent.cb = "release"
                          <=> (hk.active /\ ThisEvent.key \in {"trigger"} \cup cfg.modifiers)
                    /\ ThisEvent.cb # "press"
                    /\ hk'.active = (hk.active /\ ThisEvent.cb # "release")
           /\ NoReset(keylog')
                 => /\ hk'.active = combo_pressed(hk')
                    /\ \A k \in 1..Len(Fired(keylog')) :
                          Fired(keylog')[k].cb = IF k % 2 = 1 THEN "press" ELSE "release" ]_vars
\* Hold mode with a required modifier: pressed, released by the modifier, pressed again
\* by the modifier, with an auto-repeat that fired nothing.
C19_Witness ==
    /\ cfg.mode = "hold" /\ cfg.modifiers = {"ctrl"} /\ NoReset(keylog)
    /\ Len(Fired(keylog)) >= 2
    /\ \E k \in 1..Len(keylog) : keylog[k].ev = "up" /\ keylog[k].key = "ctrl"
                                  /\ keylog[k].cb = "release"
    /\ \E k \in 1..Len(keylog) : keylog[k].ev = "repeat" /\ keylog[k].combo

\* the tokens of a hotkey string: '+'-separated, trimmed, lower-cased
Tokens(s) == Parts(s)
IsModifier(token) == Is(token, {"alt", "ctrl", "shift", "cmd", "win"})
\* the strings the contract accepts
ValidHotkey(s) ==
    LET t == Tokens(s) IN
    /\ Len(t) >= 1
    /\ \A k \in 1..(Len(t) - 1) : IsModifier(t[k])
    /\ Is(t[Len(t)], SPECIAL_KEYS) \/ Is(t[Len(t)], {"a"})
    /\ ~IsModifier(t[Len(t)])

\* C20: parse_hotkey succeeds exactly on the strings whose '+'-separated, trimmed,
\* lower-cased tokens are zero or more modifiers followed by a named special key or a
\* single character that is not a modifier, and then returns the canonical modifier
\* names (win as cmd) with that trigger; on every other string it raises.
C20_ParseHotkey ==
    parse.out # Unparsed
    => LET t == Tokens(parse.str) IN
       /\ parse.out.ok <=> ValidHotkey(parse.str)
       /\ parse.out.ok
            => /\ parse.out.modifiers =
                     {IF t[k] = <<"win">> THEN "cmd" ELSE t[k][1] : k \in 1..(Len(t) - 1)}
               /\ parse.out.trigger[2] = (IF t[Len(t)] = <<"escape">> THEN "esc" ELSE t[Len(t)][1])
\* "win + Ctrl+A" style input parsed: two modifiers, win canonical, the trigger lower-cased
C20_Witness ==
    /\ parse.out.ok /\ parse.out.modifiers = {"cmd", "ctrl"}
    /\ parse.out.trigger = <<"KeyCode", "a">>
    /\ \E k \in 1..Len(parse.str) : parse.str[k] = "A"

\* A worker of a hotkey session (rec-start, pipeline, cleanup) takes a step that changes
\* some LastInteraction field.
SessionWritesLast(i) ==
    /\ th[i].kind \in {"rec", "pipe", "cleanup"} /\ th'[i] # th[i]
    /\ last' # last
\* ... and performs the injection of its session in that step
InjectsNow(i) ==
    /\ th[i].sid \in hist'.injected /\ th[i].sid \notin hist.injected
    /\ hist'.inj.sid = th[i].sid /\ hist'.inj.text = last'.result
\* ... or diverts its result to HeldResult in that step
HoldsNow(i) ==
    /\ app'.held_result = last'.result /\ app'.held_result # NoText
    /\ ov'.bubble /\ hist'.injected = hist.injected

NoRevertRunning == \A i \in Slots : th[i].kind # "revert"

\* C22: after a successful injection LastInteraction keeps that interaction's raw text
\* and result until the next successful injection overwrites them; no ghost-menu action
\* that ends without injecting (Revert followed by cancel in staging), no cancellation
\* and no failed session clears them: once something was injected and no Revert is
\* under way, the raw text and the result of LastInteraction are present.
C22_LastKeptUntilNextInjection ==
    (hist.inj # NoInj /\ NoRevertRunning)
        => (last.raw_text # NoText /\ last.result # NoText)

\* The monitor finds the recording at its maximum duration in this step.
TimeoutStep == hist'.ranOut /\ ~hist.ranOut
\* The recording that ran out ends in this step.
RanOutEnds == hist.ranOut /\ recording /\ ~recording'

\* C23: once the recording duration reaches the configured maximum the monitor forces
\* the cancellation path: in the tick itself the cancellation flag is set, the monitor
\* stops ticking and a worker that ends the session is under way; the recording ends
\* only by being aborted, by a worker that returns and releases the lock in that step,
\* so its audio is neither transcribed nor injected.
C23_TimeoutCancels ==
    [][ /\ TimeoutStep =>
            /\ app'.cancel_requested /\ app'.stop_timeout_timer
            /\ \E i \in Slots : th'[i].kind \in {"pipe", "cleanup"}
        /\ RanOutEnds =>
            /\ \A i \in Slots : th'[i] # th[i] => th'[i].kind = "none"
            /\ ~lock'
            /\ hist'.injected = hist.injected /\ hist'.inj = hist.inj
      ]_vars

\* Pipeline worker i goes on from a recorder that returned no samples, or from a
\* transcript that is empty after trimming.
NothingCaptured(i) ==
    /\ th[i].kind = "pipe" /\ th'[i] # th[i]
    /\ \/ th[i].pc = "stopped" /\ ~th[i].audio
       \/ th[i].pc = "transcribed" /\ th[i].text = Empty

WritesRecords ==
    \/ app'.held_result # app.held_result
    \/ app'.held_clipboard # app.held_clipboard
    \/ last' # last
\* The path that takes the step holds pipelineLock: it is a worker of the session that
\* owns the lock, or the handler acquires the lock in this very step.
WriterHoldsLock ==
    \/ /\ lock /\ hist.owner # 0
       /\ \E i \in Slots : th[i].kind # "none" /\ th'[i] # th[i] /\ th[i].sid = hist.owner
    \/ ~lock /\ lock' /\ hist'.owner = hist.nextSid

\* C25: every write to HeldResult or LastInteraction, including those made by the
\* hold-bubble actions inject, copy and show-ghost, is made while the writing path holds
\* pipelineLock (stated for the runs in which every release so far was made by the
\* session that held the lock).
C25_RecordsWrittenUnderLock ==
    [][ (~hist.badRelease /\ WritesRecords) => WriterHoldsLock ]_vars

\* Worker i is the Setup of the only session in flight, at its first step.
SetupOfTheSession(i) ==
    /\ th[i].kind = "rec" /\ th[i].pc = "setup" /\ th'[i] # th[i]
    /\ hist.inflight = {th[i].sid}

\* C26: between the acceptance of a press and the release of the lock by that session,
\* targetWindow is written exactly once, at the start of Setup, so that every watcher
\* tick and the injection-safety check of the session compare the foreground window
\* against that value: while a session is in flight, targetWindow changes only in the
\* first step of that session's Setup.
C26_TargetWindowWrittenOnce ==
    [][ (hist.inflight # {} /\ app'.target_window # app.target_window)
          => \E i \in Slots : SetupOfTheSession(i) ]_vars

\* A ghost-menu button is clicked while pipelineLock is held.
GhostWhileBusy == lock /\ ov.ghost /\ ~ov'.ghost

\* C27: a ghost-menu action (Revert, Regenerate, Use raw) invoked while pipelineLock is
\* held does nothing: it sends no undo keystroke, injects nothing and changes no
\* session, LastInteraction or HeldResult state; only the menu itself closes.
C27_GhostIgnoredWhileBusy ==
    [][ GhostWhileBusy =>
          /\ ov' = [ov EXCEPT !.ghost = FALSE]
          /\ UNCHANGED <<app, last, lock, th, hist, recording, clipboard, hk>> ]_vars
\* The ghost menu is on screen with an interaction saved while the lock is held, and a
\* click on it can still happen.
C27_Witness ==
    /\ lock /\ ov.ghost /\ last.raw_text # NoText
    /\ events < MaxEvents

\* C28: a ghost-menu action sends the simulated undo keystroke only if the target
\* window recorded in LastInteraction is the foreground window (same handle and same
\* process id) at that moment; otherwise no undo keystroke is sent.
C28_UndoOnlyInTarget ==
    [][ hist'.undo # hist.undo =>
          /\ last.target_window # NoWindow
          /\ fg[1] = last.target_window[1] /\ fg[2] = last.target_window[2]
          /\ hist'.undo.win = fg
          /\ ov.ghost /\ hist'.undo.sid \in hist'.inflight ]_vars
\* A ghost action has sent the undo keystroke into the window of the last injection.
C28_Witness ==
    /\ hist.undo # NoUndo /\ hist.inj # NoInj /\ hist.undo.win = hist.inj.win

\* Pipeline worker i takes a step.
PipeStep(i) == th[i].kind = "pipe" /\ th'[i] # th[i]
\* ... into one of the stages stop-recording, transcription, staging, refinement
EntersStage(i) ==
    /\ th'[i].kind = "pipe" /\ th'[i].pc # th[i].pc
    /\ th'[i].pc \in {"stopped", "transcribed", "show", "llm"}
\* ... from a place where the step begins with a read of the cancellation flag
ReadsFlag(i) == th[i].pc \in {"wait", "stopped", "transcribed", "staging", "llm"}

\* C29: in the main pipeline each of stop-recording, transcription, staging,
\* refinement and injection is entered only after a read of the cancellation flag, made
\* after the previous stage finished, returned false; a session that reads the flag as
\* set runs no later stage and injects nothing.
C29_CheckpointBeforeEachStage ==
    [][ \A i \in Slots : PipeStep(i) =>
          /\ (EntersStage(i) \/ hist'.inj # hist.inj)
                => (ReadsFlag(i) /\ ~app.cancel_requested)
          /\ (ReadsFlag(i) /\ app.cancel_requested) =>
                /\ th'[i].kind = "none"
                /\ hist'.inj = hist.inj /\ hist'.injected = hist.injected
                /\ hist'.llm = hist.llm
                /\ ov'.staging = ov.staging
                /\ last' = last /\ app'.held_result = app.held_result ]_vars
\* A pipeline worker has a transcript in hand and the cancellation flag is set: its
\* next read of the flag returns true.
C29_Witness ==
    \E i \in Slots :
        /\ th[i].kind = "pipe" /\ th[i].pc = "transcribed" /\ th[i].text # Empty
        /\ app.cancel_requested

\* The Setup worker i ends in this step.
SetupEnds(i) == th[i].kind = "rec" /\ th'[i].kind = "none"

\* C30: every run of the Setup worker sets the recording-started event when it ends,
\* whether setup completed or threw at any step, so a pipeline worker or cleanup worker
\* waiting on that event is always woken: the event is set in the step in which a Setup
\* worker ends, and whenever the event is clear a Setup worker is still running.
C30_SetupAlwaysSignals ==
    [][ /\ \A i \in Slots : SetupEnds(i) => app'.recording_started
        /\ ~app'.recording_started => \E i \in Slots : th'[i].kind = "rec" ]_vars
\* Setup threw before it was complete, and the event is set with a worker waiting on it.
C30_Witness ==
    /\ hist.nextSid = 2 /\ ~hist.setup[1].done
    /\ app.recording_started
    /\ \A i \in Slots : th[i].kind # "rec"
    /\ \E i \in Slots : th[i].kind \in {"pipe", "cleanup"} /\ th[i].pc = "wait"

\* Pipeline worker i leaves its wait for the recording-started event.
LeavesWait(i) == th[i].kind = "pipe" /\ th[i].pc = "wait" /\ th'[i] # th[i]
\* The Setup worker of session sid is still running: it has not signalled yet.
SetupRunning(sid) == \E j \in Slots : th[j].kind = "rec" /\ th[j].sid = sid

\* C31: the pipeline worker never stops the recorder or transcribes before the Setup
\* worker of the same session has signalled recording-started; if the signal does not
\* arrive within the wait timeout, the pipeline aborts without stopping the recorder,
\* transcribing or injecting.
C31_PipelineWaitsForSetup ==
    [][ \A i \in Slots : LeavesWait(i) =>
          /\ (recording' # recording \/ th'[i].pc = "stopped") => ~SetupRunning(th[i].sid)
          /\ ~app.recording_started =>
                /\ th'[i].kind = "none" /\ recording' = recording
                /\ hist'.inj = hist.inj /\ hist'.injected = hist.injected ]_vars

StagingReturns(i) == th[i].kind = "pipe" /\ th[i].pc = "staging" /\ th'[i] # th[i]
\* The texts a refinement call on text can return to worker i.
RefineResults(i, text) == { run_llm(app, text, th[i].persona, o) : o \in {"ok", "fail"} }

\* C33: after wait_staging returns in the main pipeline, the action cancel injects
\* nothing and calls no refinement; the action raw calls no refinement and, with no
\* cancellation requested and the injection not raising, injects the edited text
\* verbatim; the action refine, with no cancellation requested, calls refinement on the
\* edited text, and the result of that call is what the session injects or holds.
C33_StagingActions ==
    [][ \A i \in Slots :
          /\ StagingReturns(i) =>
               LET action == ov.staging_result_action
                   edited == ov.staging_result_text
               IN /\ action = "cancel" =>
                        /\ th'[i].kind = "none" /\ hist'.inj = hist.inj
                        /\ hist'.injected = hist.injected /\ hist'.llm = hist.llm
                        /\ app'.held_result = app.held_result /\ last' = last
                  /\ action = "raw" =>
                        /\ th'[i].pc # "llm" /\ hist'.llm = hist.llm
                        /\ hist'.inj # hist.inj => hist'.inj.text = edited
                        /\ (~app.cancel_requested /\ th'[i].kind = "none") =>
                              /\ th[i].sid \in hist'.injected
                              /\ hist'.inj.sid = th[i].sid /\ hist'.inj.text = edited
                              /\ last'.result = edited
                  /\ (action \notin {"cancel", "raw"} /\ ~app.cancel_requested) =>
                        /\ th'[i].pc = "llm" /\ th'[i].edited = edited
                        /\ hist'.inj = hist.inj /\ hist'.injected = hist.injected
          /\ (PipeRefined(i) /\ ~cfg.personas) =>
                /\ hist'.llm.sid = th[i].sid /\ hist'.llm.arg = th[i].edited
                /\ \/ /\ th[i].sid \in hist'.injected /\ hist'.inj.sid = th[i].sid
                      /\ hist'.inj.text \in RefineResults(i, th[i].edited)
                      /\ last'.result = hist'.inj.text
                   \/ /\ hist'.injected = hist.injected /\ hist'.inj = hist.inj
                      /\ app'.held_result \in RefineResults(i, th[i].edited)
                      /\ last'.result = app'.held_result ]_vars
\* The action raw has injected a text the user edited in the staging editor, and no
\* refinement call was made.
C33_Witness ==
    /\ hist.inj.by = "pipe" /\ ~hist.inj.checked /\ hist.inj.sid # 0
    /\ hist.inj.text # last.raw_text /\ last.result = hist.inj.text
    /\ hist.llm = NoLlm

\* The refinement call of pipeline worker i is outstanding.
LlmOutstanding(i) == th[i].kind = "pipe" /\ th[i].pc = "llm"

\* C34: if the foreground window differs from target_window at a watcher tick while the
\* refinement call of a session is outstanding, the mismatch is remembered until the
\* call returns, and the result (when not cancelled) is not injected but stored in
\* held_result, even if target_window is the foreground window again at the return.
C34_SwitchDuringRefinementHolds ==
    [][ \A i \in Slots :
          /\ (LlmOutstanding(i) /\ watch_hwnd) => app'.window_mismatch
          /\ (LlmOutstanding(i) /\ app.window_mismatch /\ th'[i] = th[i])
                => app'.window_mismatch
          /\ (PipeRefined(i) /\ app.window_mismatch) =>
                /\ hist'.injected = hist.injected /\ hist'.inj = hist.inj
                /\ app'.held_result \in RefineResults(i, th[i].edited)
                /\ ov'.bubble ]_vars

\* The hold callback of worker i delivers the text it read in this step: _on_hold_inject
\* pastes it, _on_hold_copy puts it on the clipboard.
HoldDelivers(i) ==
    /\ th[i].kind \in {"hold_inject", "hold_copy"} /\ th[i].pc = "read"
    /\ th[i].text # NoText /\ th'[i].kind = "none"

\* C35: a held result is delivered by at most one of the actions that clear it (an
\* accepted press flushing it to the clipboard, left-click inject, right-click copy,
\* middle-click show-ghost): a hold callback delivers the text only while it is still
\* the held result, i.e. no other of these actions has delivered or discarded it.
C35_HeldDeliveredOnce ==
    [][ \A i \in Slots : HoldDelivers(i) => app.held_result = th[i].text ]_vars

\* C36: pipeline_lock is released exactly once per acquisition: no worker calls
\* release() when the lock is not held or is held by a different session, under any
\* interleaving of press, release and cancel.
C36_ReleaseOncePerAcquisition == ~hist.badRelease

\* C37: whenever pipeline_lock is free, the audio recorder is not recording and no
\* Setup worker of an earlier session is still running; in particular a pipeline or
\* cleanup worker that gave up waiting for recording-started leaves no recording
\* running after the lock is released.
C37_FreeLockMeansIdleRecorder ==
    ~lock => /\ ~recording
             /\ \A i \in Slots : th[i].kind # "rec"

\* Pipeline worker i uses the values of Setup in this step: its refinement call
\* returns, it injects, or it saves the interaction.
UsesSetupValues(i) ==
    /\ th[i].kind = "pipe"
    /\ hist'.llm # hist.llm \/ hist'.inj # hist.inj \/ last' # last

\* C38: every value a session uses after Setup (mode, selected_text,
\* original_clipboard) was written during that session's own Setup; a session whose
\* Setup raised after the recorder had started does not go on to refine or inject with
\* the values an earlier session left.
C38_SetupValuesAreOwn ==
    [][ \A i \in Slots : UsesSetupValues(i) =>
          LET su == hist.setup[th[i].sid] IN
          /\ su.done
          /\ app.selected_text = su.sel /\ app.original_clipboard = su.clip
          /\ app.mode = IF su.sel # NoText THEN "polish" ELSE "insert" ]_vars

\* The refinement call of the ghost-menu Regenerate or Revert worker i returns in this
\* step and the action ends.
GhostRefined(i) ==
    /\ th[i].kind \in {"revert", "regen"} /\ th[i].pc = "llm"
    /\ th'[i].kind = "none"

\* C39: a cancellation requested while a ghost-menu Regenerate or Revert runs its
\* refinement call prevents the action from injecting or holding the result, and the
\* cancellation flag is clear again once the action has released the lock.
C39_GhostCancel ==
    [][ \A i \in Slots : GhostRefined(i) =>
          /\ app.cancel_requested =>
                /\ hist'.inj = hist.inj /\ hist'.injected = hist.injected
                /\ app'.held_result = app.held_result
          /\ ~app'.cancel_requested ]_vars

\* A key-down event for a key the listener already tracks as down, the whole combo
\* being down: an auto-repeat of the held combo, and it changes the listener's state.
AutoRepeatActs(key) ==
    /\ IsHeld(hk, key) /\ combo_pressed(hk)
    /\ hk' = on_key_press_state(hk, key) /\ hk' # hk

\* C40: after a cancellation that occurs while the hotkey combo is still physically
\* held, auto-repeated key-down events of the held combo do not fire on_press again:
\* no new session starts before the combo has been released and pressed anew.
C40_NoPressFromAutoRepeat ==
    [][ \A key \in Keys : AutoRepeatActs(key) =>
          /\ on_key_press_fires(hk, key) # "press"
          /\ hist'.nextSid = hist.nextSid ]_vars

====
